---- MODULE Spec2Model ----
(***************************************************************************)
(* VaSeBuilder: the variant context builder (buildValidationSet), the      *)
(* variant context registry (VariantContextFile) and the FASTQ             *)
(* substitution writer (buildFastQ / writeVaSeFastQ).                      *)
(*                                                                         *)
(* Read identifiers, chromosomes and positions are small naturals; the     *)
(* lexicographic order of identifiers is the order of the naturals.        *)
(***************************************************************************)
EXTENDS Integers, Sequences, FiniteSets, TLC

VARIABLES
    contexts,              \* VariantContextFile.variant_contexts, in insertion order
    pc,                    \* position of buildValidationSet
    acceptorBam,           \* the records of the acceptor alignment file
    donorBam,              \* the records of the current sample's alignment file
    sample,                \* the sample of the for loop at VaSeBuilder.py:40
    nvar,                  \* variants fetched so far from the current sample's VCF
    lastVar,               \* the variant processed last and what was logged for it
    donorVcfsUsed,         \* VaSeBuilder.py:34
    openFiles,             \* the file handles that are open
    fastq,                 \* the acceptor FASTQ inputs: lanes of paired records
    fqOut,                 \* the lines written to each output file, per orientation
    acceptorReadsToSkip,   \* VaSeBuilder.py:126
    donorReads,            \* VaSeBuilder.py:127 (one list object, sorted in place)
    outFiles,              \* the text files written, by name: their records in order
    loaded                 \* the variant_contexts of a registry built from a file

buildVars == <<acceptorBam, donorBam, sample, nvar, lastVar, donorVcfsUsed, openFiles>>
fqVars == <<fastq, fqOut, acceptorReadsToSkip, donorReads>>
fileVars == <<outFiles, loaded>>
vars == <<contexts, pc, acceptorBam, donorBam, sample, nvar, lastVar, donorVcfsUsed,
          openFiles, fastq, fqOut, acceptorReadsToSkip, donorReads, outFiles, loaded>>

(***************************************************************************)
(* Bounds                                                                  *)
(***************************************************************************)
NumAccIds == 2         \* acceptor read identifiers 1..NumAccIds
NumDonIds == 2         \* donor read identifiers 1..NumDonIds
MaxLanes == 2          \* lanes per orientation
MaxRecs == 2           \* records per lane
MaxFqContexts == 2     \* contexts of a registry handed to the writer
NumSamples == 2        \* donor samples of vcfSampleMap
MaxVariants == 2       \* variant records fetched in one run
MaxPos == 7            \* variant positions 1..MaxPos
NumChroms == 2         \* chromosomes 1..NumChroms
MaxCoord == 3          \* coordinates 0..MaxCoord of queried registries
MaxQueryContexts == 2  \* contexts of a queried registry
MaxAlleles == 2        \* alleles of one field of a variant record
MaxAlleleLen == 2      \* bases of an allele
MaxFileContexts == 2   \* contexts of a registry saved to a file

AccIds == 1..NumAccIds
DonIds == 1..NumDonIds
Orientations == {"F", "R"}

\* The text that follows '@' on a sequence or quality line: never a read id.
NoId == 0

\* The handle of the acceptor alignment file
AcceptorHandle == [kind |-> "bam", sample |-> 0]

(***************************************************************************)
(* Small helpers                                                           *)
(***************************************************************************)
RECURSIVE Perms(_)
Perms(S) ==
    IF S = {} THEN {<<>>}
    ELSE UNION {{<<x>> \o p : p \in Perms(S \ {x})} : x \in S}

RECURSIVE Flatten(_)
Flatten(ss) == IF ss = <<>> THEN <<>> ELSE Head(ss) \o Flatten(Tail(ss))

Range(s) == {s[i] : i \in DOMAIN s}

(***************************************************************************)
(* DonorBamRead: the value object built at VaSeBuilder.py:181.             *)
(***************************************************************************)
DonorBamRead(id, pn, chrom, pos, len) ==
    [id |-> id, pn |-> pn, chrom |-> chrom, pos |-> pos, len |-> len]

getBamReadId(r) == r.id
isRead1(r) == r.pn = 1
isRead2(r) == r.pn = 2

\* DonorBamRead.getBamReadRefPos, getBamReadRefEnd, getBamReadChrom: the
\* read keeps its reference start and its inferred length only
getBamReadRefPos(r) == r.pos
getBamReadRefEnd(r) == r.pos + r.len
getBamReadChrom(r) == r.chrom

SetMin(S) == CHOOSE x \in S : \A y \in S : x <= y
SetMax(S) == CHOOSE x \in S : \A y \in S : x >= y

(***************************************************************************)
(* Alignment files.  A record has the read's identifier, its pair number,  *)
(* its chromosome, its reference start, its inferred read length (len) and *)
(* the length of the reference it is aligned to (span).  A read may have   *)
(* more than one record (secondary and supplementary alignments).          *)
(***************************************************************************)
BamRecord(id, pn, chrom, pos, len, span) ==
    [id |-> id, pn |-> pn, chrom |-> chrom, pos |-> pos, len |-> len, span |-> span]

\* AlignmentFile.fetch(chrom, start, end): the records whose aligned reference
\* span meets [start, end)
fetch(bam, chrom, start, end) ==
    {r \in bam : r.chrom = chrom /\ r.pos < end /\ r.pos + r.span > start}

\* AlignmentFile.mate(read): the record of the other pair number with the
\* read's name; ValueError when there is none
HasMate(bam, r) == \E m \in bam : m.id = r.id /\ m.pn # r.pn
mate(bam, r) == CHOOSE m \in bam : m.id = r.id /\ m.pn # r.pn

\* VaSeBuilder.py:181, 186
ToDonorBamRead(r) == DonorBamRead(r.id, r.pn, r.chrom, r.pos, r.len)

\* The list variantReads at VaSeBuilder.py:192, as the number of times each
\* read was appended: once when fetched, once for each fetched read it is the
\* mate of
variantReadsList(bam, chrom, start, end) ==
    LET fetched == fetch(bam, chrom, start, end) IN
    [x \in {ToDonorBamRead(r) : r \in bam} |->
        Cardinality({r \in fetched : ToDonorBamRead(r) = x})
        + Cardinality({r \in fetched : HasMate(bam, r) /\ ToDonorBamRead(mate(bam, r)) = x})]

\* The list left as it was accumulated
KeepDuplicates(counts) == counts

\* list(set(variantReads)) (VaSeBuilder.py:192): DonorBamRead objects are
\* equal when all their attributes are, so every read that was appended is
\* in the list once
DedupReads(counts) == [x \in DOMAIN counts |-> IF counts[x] > 0 THEN 1 ELSE 0]

RECURSIVE SumCounts(_, _)
SumCounts(S, counts) ==
    IF S = {} THEN 0
    ELSE LET x == CHOOSE y \in S : TRUE IN counts[x] + SumCounts(S \ {x}, counts)

\* readOccurence (VaSeBuilder.py:204-205): the entries of the list with the
\* identifier
readOccurence(readId, readList) ==
    SumCounts({b \in DOMAIN readList : getBamReadId(b) = readId}, readList)

\* filterVariantReads (VaSeBuilder.py:200-201): the reads it returns
filterVariantReads(bamReads) ==
    {bread \in DOMAIN bamReads :
        bamReads[bread] > 0 /\ readOccurence(getBamReadId(bread), bamReads) = 2}

\* getVariantReads (VaSeBuilder.py:176-196) with writeUnm=True: the reads it
\* returns and the identifiers it appends to uMateList
getVariantReads(chrom, start, end, bam) ==
    [reads |-> filterVariantReads(DedupReads(variantReadsList(bam, chrom, start, end))),
     unmapped |-> {r.id : r \in {q \in fetch(bam, chrom, start, end) : ~HasMate(bam, q)}}]

\* determineContext (VaSeBuilder.py:209-217); first is contextReads[0], any
\* read of the list, whose order is that of a set
determineContext(contextReads, contextOrigin, first) ==
    IF contextReads # {}
    THEN << getBamReadChrom(first), contextOrigin,
            SetMin({getBamReadRefPos(r) : r \in contextReads}),
            SetMax({getBamReadRefEnd(r) : r \in contextReads}) >>
    ELSE <<>>

Min2(a, b) == IF a <= b THEN a ELSE b
Max2(a, b) == IF a >= b THEN a ELSE b

\* The acceptor context taken for the largest context
determineAcceptorContext(contextOrigin, acceptorContext, donorContext) ==
    << acceptorContext[1], contextOrigin, acceptorContext[3], acceptorContext[4] >>

\* determineLargestContext (VaSeBuilder.py:221-226), of two non-empty contexts
determineLargestContext(contextOrigin, acceptorContext, donorContext) ==
    << acceptorContext[1], contextOrigin,
       Min2(acceptorContext[3], donorContext[3]),
       Max2(acceptorContext[4], donorContext[4]) >>

(***************************************************************************)
(* Variants.  ref and alts are the lengths of the reference alleles        *)
(* (vcfVariantRef.split(',')) and of the alternative alleles.              *)
(***************************************************************************)
SeqMax(s) == SetMax(Range(s))

\* The type taken from the first alternative allele alone
determineVariantTypeFirstAlt(ref, alts) ==
    IF SeqMax(ref) = 1 /\ alts[1] = 1 THEN "snp"
    ELSE IF SeqMax(ref) > 1 \/ alts[1] > 1 THEN "indel"
    ELSE "?"

\* determineVariantType (VaSeBuilder.py:147-156)
determineVariantType(ref, alts) ==
    IF SeqMax(ref) = 1 /\ SeqMax(alts) = 1 THEN "snp"
    ELSE IF SeqMax(ref) > 1 \/ SeqMax(alts) > 1 THEN "indel"
    ELSE "?"

\* The range of an indel taken from the alternative alleles alone
determineIndelReadRangeAlts(variantPos, variantRef, variantAlts) ==
    << variantPos, variantPos + SeqMax(variantAlts) >>

\* determineIndelReadRange (VaSeBuilder.py:169-172)
determineIndelReadRange(variantPos, variantRef, variantAlts) ==
    << variantPos, variantPos + Max2(SeqMax(variantRef), SeqMax(variantAlts)) >>

\* determineReadSearchWindow (VaSeBuilder.py:160-165)
determineReadSearchWindow(variantType, vcfVariant) ==
    IF variantType = "snp" THEN << vcfVariant.pos - 1, vcfVariant.pos + 1 >>
    ELSE IF variantType = "indel"
         THEN determineIndelReadRange(vcfVariant.pos, vcfVariant.ref, vcfVariant.alts)
         ELSE << -1, -1 >>

\* getVcfVariantId (VaSeBuilder.py:329-330): "chrom_pos"
getVcfVariantId(vcfVariant) == << vcfVariant.chrom, vcfVariant.pos >>

(***************************************************************************)
(* The registry (VariantContextFile.py)                                    *)
(***************************************************************************)
\* snp_variant_is_in_context (VariantContextFile.py:218-224)
snp_variant_is_in_context(reg, varchrom, vcfvarpos) ==
    \E i \in DOMAIN reg :
        /\ varchrom = reg[i].chrom
        /\ vcfvarpos >= reg[i].start /\ vcfvarpos <= reg[i].end

\* The sub-cases with the boundaries of the context left out
indel_variant_is_in_context_strict(reg, indelchrom, indelleftpos, indelrightpos) ==
    \E i \in DOMAIN reg :
        /\ indelchrom = reg[i].chrom
        /\ \/ indelleftpos < reg[i].start /\ indelrightpos > reg[i].start
           \/ indelleftpos < reg[i].end /\ indelrightpos > reg[i].end
           \/ indelleftpos >= reg[i].start /\ indelrightpos <= reg[i].end

\* The two boundary sub-cases without the containment sub-case
indel_variant_is_in_context_boundaries(reg, indelchrom, indelleftpos, indelrightpos) ==
    \E i \in DOMAIN reg :
        /\ indelchrom = reg[i].chrom
        /\ \/ indelleftpos <= reg[i].start /\ indelrightpos >= reg[i].start
           \/ indelleftpos <= reg[i].end /\ indelrightpos >= reg[i].end

\* indel_variant_is_in_context (VariantContextFile.py:229-241)
indel_variant_is_in_context(reg, indelchrom, indelleftpos, indelrightpos) ==
    \E i \in DOMAIN reg :
        /\ indelchrom = reg[i].chrom
        /\ \/ indelleftpos <= reg[i].start /\ indelrightpos >= reg[i].start
           \/ indelleftpos <= reg[i].end /\ indelrightpos >= reg[i].end
           \/ indelleftpos >= reg[i].start /\ indelrightpos <= reg[i].end

\* variant_is_in_context (VariantContextFile.py:207-214); None, returned for
\* any other type, is false to the caller
variant_is_in_context(reg, varianttype, searchchrom, searchstart, searchstop) ==
    IF varianttype = "snp" THEN snp_variant_is_in_context(reg, searchchrom, searchstart)
    ELSE IF varianttype = "indel"
         THEN indel_variant_is_in_context(reg, searchchrom, searchstart, searchstop)
         ELSE FALSE

\* An OverlapContext (VariantContext.add_acceptor_context, add_donor_context)
\* with its unmapped mate identifiers
OverlapContext(context, reads, unmapped) ==
    [chrom |-> context[1], origin |-> context[2], start |-> context[3],
     end |-> context[4], reads |-> reads, unmapped |-> unmapped]

\* VariantContext.__init__ (VariantContext.py:35-80) with the acceptor and
\* donor contexts and the unmapped mate identifiers set (VaSeBuilder.py:85-93)
VariantContext(varconid, sampleid, varcon, areads, dreads, acon, dcon, uA, uD) ==
    [id |-> varconid, sample |-> sampleid, chrom |-> varcon[1], origin |-> varcon[2],
     start |-> varcon[3], end |-> varcon[4], areads |-> areads, dreads |-> dreads,
     acon |-> acon, dcon |-> dcon, uA |-> uA, uD |-> uD]

\* add_variant_context (VariantContextFile.py:249-259):
\* self.variant_contexts[varconid] = varcon_obj; a dict keeps the place of a
\* key it already holds
add_variant_context(reg, varcon_obj) ==
    IF \E i \in DOMAIN reg : reg[i].id = varcon_obj.id
    THEN [i \in DOMAIN reg |-> IF reg[i].id = varcon_obj.id THEN varcon_obj ELSE reg[i]]
    ELSE Append(reg, varcon_obj)

\* An allow-list argument: None (the default) or a list of values
NoFilter == [supplied |-> FALSE, list |-> {}]
Filter(S) == [supplied |-> TRUE, list |-> S]

\* passes_filter (VariantContextFile.py:148-151)
passes_filter(valtocheck, filterlist) ==
    IF filterlist.supplied THEN valtocheck \in filterlist.list ELSE TRUE

\* OverlapContext.get_context_length
get_context_length(con) == con.end - con.start

\* to_string (VariantContext.py:1052-1091): the thirteen columns of a line.
\* The ratio is the pair it is the quotient of, and a joined sorted list of
\* unique identifiers is the set of the identifiers.
to_string(varcon) ==
    [id |-> varcon.id, sample |-> varcon.sample, chrom |-> varcon.chrom,
     origin |-> varcon.origin, start |-> varcon.start, end |-> varcon.end,
     acon_len |-> get_context_length(varcon.acon),
     dcon_len |-> get_context_length(varcon.dcon),
     aread_count |-> Cardinality(varcon.areads),
     dread_count |-> Cardinality(varcon.dreads),
     ad_ratio |-> <<Cardinality(varcon.areads), Cardinality(varcon.dreads)>>,
     list_areads |-> {getBamReadId(r) : r \in varcon.areads},
     list_dreads |-> {getBamReadId(r) : r \in varcon.dreads}]

\* The loop of write_variant_context_file (VariantContextFile.py:384-398)
\* from the i-th context on: the division of to_string by the number of
\* donor reads raises ZeroDivisionError, which is not an IOError, and the
\* lines written before it stay in the file
RECURSIVE WriteVarconLines(_, _, _, _, _, _)
WriteVarconLines(reg, i, samplefilter, varconfilter, chromfilter, out) ==
    IF i > Len(reg) THEN [lines |-> out, crashed |-> FALSE]
    ELSE IF /\ passes_filter(reg[i].sample, samplefilter)
            /\ passes_filter(reg[i].id, varconfilter)
            /\ passes_filter(reg[i].chrom, chromfilter)
         THEN IF reg[i].dreads = {}
              THEN [lines |-> out, crashed |-> TRUE]
              ELSE WriteVarconLines(reg, i + 1, samplefilter, varconfilter, chromfilter,
                                    Append(out, to_string(reg[i])))
         ELSE WriteVarconLines(reg, i + 1, samplefilter, varconfilter, chromfilter, out)

\* write_variant_context_file (VariantContextFile.py:374-401): the lines
\* after the header
write_variant_context_file(reg, samplefilter, varconfilter, chromfilter) ==
    WriteVarconLines(reg, 1, samplefilter, varconfilter, chromfilter, <<>>)

\* The loop of write_variant_context_stats (VariantContextFile.py:470-471):
\* to_statistics_string takes statistics.mean of each read set
\* (VariantContext.py:1094-1121), which raises StatisticsError on an empty
\* one.  A line is modelled by the identifier it starts with.
RECURSIVE WriteStatsLines(_, _, _)
WriteStatsLines(reg, i, out) ==
    IF i > Len(reg) THEN [lines |-> out, crashed |-> FALSE]
    ELSE IF reg[i].areads = {} \/ reg[i].dreads = {}
         THEN [lines |-> out, crashed |-> TRUE]
         ELSE WriteStatsLines(reg, i + 1, Append(out, reg[i].id))

\* write_variant_context_stats (VariantContextFile.py:462-474)
write_variant_context_stats(reg) == WriteStatsLines(reg, 1, <<>>)

\* read_variant_context_file (VariantContextFile.py:91-145) on the lines
\* after the header.  A line that fails a filter is passed over.  For the
\* first line that passes every filter the method reads
\* self.variantContextFileType (line 109), an attribute the class never
\* sets: AttributeError, which the except IOError clause does not catch.
\* Nothing has been stored by then, so variant_contexts is as __init__
\* left it.
read_variant_context_file(lines, samplefilter, varconfilter, chromfilter) ==
    [contexts |-> <<>>,
     crashed |-> \E i \in DOMAIN lines :
                    /\ passes_filter(lines[i].sample, samplefilter)
                    /\ passes_filter(lines[i].id, varconfilter)
                    /\ passes_filter(lines[i].chrom, chromfilter)]

(***************************************************************************)
(* FASTQ files are sequences of lines.  A line records whether its first   *)
(* byte is '@' (at) and, for the properties, which line of which record it *)
(* is: k is "H" (header), "S" (sequence), "P" (the '+' separator) or "Q"   *)
(* (quality); src is "A" for a line of an acceptor file and "D" for a line *)
(* formatted from a donor read; pn is 1 for R1 and 2 for R2.               *)
(***************************************************************************)
Line(k, at, id, src, pn) == [k |-> k, at |-> at, id |-> id, src |-> src, pn |-> pn]

\* The four lines of an acceptor record of the file with pair number pn.  at2
\* is 2 when the sequence line begins with '@', 4 when the quality line does,
\* 0 when neither does.
RecLines(id, at2, pn) ==
    << Line("H", TRUE, id, "A", pn),
       Line("S", at2 = 2, id, "A", pn),
       Line("P", FALSE, id, "A", pn),
       Line("Q", at2 = 4, id, "A", pn) >>

\* DonorBamRead.getAsFastQSeq: "@id\nseq\n+\nqual\n"
getAsFastQSeq(r) ==
    << Line("H", TRUE, r.id, "D", r.pn),
       Line("S", FALSE, r.id, "D", r.pn),
       Line("P", FALSE, r.id, "D", r.pn),
       Line("Q", FALSE, r.id, "D", r.pn) >>

\* fileLine.decode("utf-8").strip()[1:] of a line that starts with '@'
HeaderText(line) == IF line.k = "H" THEN line.id ELSE NoId

(***************************************************************************)
(* The registry's derived views (VariantContextFile.py:68-79).             *)
(***************************************************************************)
get_acceptor_read_ids(varcon) == {getBamReadId(r) : r \in varcon.areads}

get_all_variant_context_acceptor_read_ids(reg) ==
    UNION {get_acceptor_read_ids(reg[i]) : i \in DOMAIN reg}

\* Every list the concatenation of the contexts' donor read lists can be: the
\* contexts in insertion order, each context's reads in the order its list has
\* (the order list(set(...)) gave them at VaSeBuilder.py:193).
RECURSIVE get_all_variant_context_donor_reads(_)
get_all_variant_context_donor_reads(reg) ==
    IF reg = <<>> THEN {<<>>}
    ELSE {p \o rest : p \in Perms(Head(reg).dreads),
                      rest \in get_all_variant_context_donor_reads(Tail(reg))}

(***************************************************************************)
(* writeVaSeFastQ (VaSeBuilder.py:248-281)                                 *)
(***************************************************************************)
\* The donor reads left in the order they were gathered in
SortByIdUnsorted(s) == s

\* donorBamReadData.sort(key=lambda x: x.getBamReadId(), reverse=False): a
\* stable sort on the identifier
RECURSIVE InsertById(_, _)
InsertById(r, s) ==
    IF s = <<>> THEN <<r>>
    ELSE IF getBamReadId(Head(s)) <= getBamReadId(r)
         THEN <<Head(s)>> \o InsertById(r, Tail(s))
         ELSE <<r>> \o s

RECURSIVE SortById(_)
SortById(s) ==
    IF s = <<>> THEN <<>>
    ELSE InsertById(s[Len(s)], SortById(SubSeq(s, 1, Len(s) - 1)))

\* isRequiredRead (VaSeBuilder.py:285-288)
isRequiredRead(bamRead, fR) == IF fR = "F" THEN isRead1(bamRead) ELSE isRead2(bamRead)

RECURSIVE SelectRequired(_, _)
SelectRequired(s, fR) ==
    IF s = <<>> THEN <<>>
    ELSE IF isRequiredRead(Head(s), fR)
         THEN <<Head(s)>> \o SelectRequired(Tail(s), fR)
         ELSE SelectRequired(Tail(s), fR)

\* The loop of lines 255-263 from line i on: a line that starts with '@' and
\* whose text is not to be skipped is written with the next three lines, read
\* by next(gzFile); every other line is passed over.  stop is TRUE when
\* next(gzFile) ran off the end of the file (StopIteration).
RECURSIVE ScanLines(_, _, _, _)
ScanLines(lines, i, toSkip, out) ==
    IF i > Len(lines) THEN [out |-> out, stop |-> FALSE]
    ELSE IF lines[i].at /\ HeaderText(lines[i]) \notin toSkip
         THEN IF i + 3 <= Len(lines)
              THEN ScanLines(lines, i + 4, toSkip, out \o SubSeq(lines, i, i + 3))
              ELSE [out |-> out \o SubSeq(lines, i, Len(lines)), stop |-> TRUE]
         ELSE ScanLines(lines, i + 1, toSkip, out)

\* The donor block of lines 267-272, from the sorted list
DonorBlock(sorted, fR) ==
    Flatten([i \in DOMAIN SelectRequired(sorted, fR) |->
                getAsFastQSeq(SelectRequired(sorted, fR)[i])])

PairNumber(fR) == IF fR = "F" THEN 1 ELSE 2

\* The lines of the input file of lane x (1-based) of orientation fR
RECURSIVE LaneLines(_, _)
LaneLines(lane, fR) ==
    IF lane = <<>> THEN <<>>
    ELSE RecLines(Head(lane).id,
                  IF fR = "F" THEN Head(lane).atF ELSE Head(lane).atR,
                  PairNumber(fR))
         \o LaneLines(Tail(lane), fR)

NumLanes == Len(fastq)

\* buildFastQ (VaSeBuilder.py:232-244): lane x is written next; the donor
\* reads go to the last lane only
NextLane(fR) == Len(fqOut[fR]) + 1
writeDonor(x) == x = NumLanes
AfterLane(fR, x) == IF x < NumLanes THEN fR ELSE IF fR = "F" THEN "R" ELSE "done"

\* VaSeBuilder.py:126-127
GatherReads ==
    /\ pc = "gather"
    /\ acceptorReadsToSkip' = get_all_variant_context_acceptor_read_ids(contexts)
    /\ \E l \in get_all_variant_context_donor_reads(contexts) : donorReads' = l
    /\ pc' = "F"
    /\ UNCHANGED <<fileVars, contexts, buildVars, fastq, fqOut>>

\* One call of writeVaSeFastQ from the loop of buildFastQ
WriteVaSeFastQ ==
    /\ pc \in Orientations
    /\ LET x == NextLane(pc)
           scan == ScanLines(LaneLines(fastq[x], pc), 1, acceptorReadsToSkip, <<>>)
           sorted == SortById(donorReads)
       IN  IF scan.stop
           THEN \* StopIteration leaves writeVaSeFastQ and buildValidationSet
                /\ fqOut' = [fqOut EXCEPT ![pc] = Append(@, scan.out)]
                /\ pc' = "crashed"
                /\ UNCHANGED donorReads
           ELSE /\ fqOut' = [fqOut EXCEPT ![pc] =
                                Append(@, scan.out \o (IF writeDonor(x)
                                                       THEN DonorBlock(sorted, pc)
                                                       ELSE <<>>))]
                /\ donorReads' = IF writeDonor(x) THEN sorted ELSE donorReads
                /\ pc' = AfterLane(pc, x)
    /\ UNCHANGED <<fileVars, contexts, buildVars, fastq, acceptorReadsToSkip>>

\* writeVaSeFastQ when opening the template or the output raises IOError
\* (VaSeBuilder.py:276-281): logged as critical, then exit()
WriteVaSeFastQIOError ==
    /\ pc \in Orientations
    /\ fqOut' = [fqOut EXCEPT ![pc] = Append(@, <<>>)]
    /\ pc' = "exit"
    /\ UNCHANGED <<fileVars, contexts, buildVars, fastq, acceptorReadsToSkip, donorReads>>

\* acceptorBam.close() (VaSeBuilder.py:139)
CloseAcceptor ==
    /\ pc = "done"
    /\ openFiles' = openFiles \ {AcceptorHandle}
    /\ pc' = "finished"
    /\ UNCHANGED <<fileVars,
                   contexts, acceptorBam, donorBam, sample, nvar, lastVar, donorVcfsUsed,
                   fqVars>>

(***************************************************************************)
(* buildValidationSet up to the writing of the FASTQ files                 *)
(* (VaSeBuilder.py:32-123)                                                 *)
(***************************************************************************)
\* The acceptor alignment: a pair on chromosome 1, a pair whose second read
\* lies on chromosome 2, a read whose mate is not in the file, and a first
\* read with a primary and a secondary alignment whose mate is not in the file
AcceptorFragments ==
    { {BamRecord(1, 1, 1, 1, 2, 2), BamRecord(1, 2, 1, 3, 2, 2)},
      {BamRecord(2, 1, 1, 6, 2, 2), BamRecord(2, 2, 2, 0, 2, 2)},
      {BamRecord(3, 1, 1, 2, 2, 2)},
      {BamRecord(4, 1, 1, 3, 2, 2), BamRecord(4, 1, 1, 4, 2, 2)} }

\* The donor alignments: a pair of overlapping reads and a pair of reads far
\* apart, all on chromosome 1
DonorFragments ==
    { {BamRecord(1, 1, 1, 1, 2, 2), BamRecord(1, 2, 1, 2, 2, 2)},
      {BamRecord(2, 1, 1, 6, 2, 2), BamRecord(2, 2, 1, 0, 2, 2)} }

AcceptorBams == {UNION fs : fs \in SUBSET AcceptorFragments}
DonorBams == {UNION fs : fs \in SUBSET DonorFragments}

\* The allele lengths of a variant record: a substitution of one base, and
\* a record with a second alternative allele of two bases
AlleleChoices == { [ref |-> <<1>>, alts |-> <<1>>], [ref |-> <<1>>, alts |-> <<1, 2>>] }

Variants ==
    { [chrom |-> c, pos |-> p, ref |-> a.ref, alts |-> a.alts] :
        c \in 1..NumChroms, p \in 1..MaxPos, a \in AlleleChoices }

\* No output file written yet
NoFiles == [n \in {} |-> <<>>]

VcfHandle(s) == [kind |-> "vcf", sample |-> s]
BamHandle(s) == [kind |-> "bam", sample |-> s]

\* pysam.AlignmentFile(acceptorBamLoc) (VaSeBuilder.py:37)
OpenAcceptor ==
    /\ pc = "start"
    /\ openFiles' = openFiles \cup {AcceptorHandle}
    /\ pc' = "samples"
    /\ UNCHANGED <<fileVars,
                   contexts, acceptorBam, donorBam, sample, nvar, lastVar, donorVcfsUsed,
                   fqVars>>

\* The failure logged and the run going on without the acceptor alignment
OpenAcceptorIOErrorLogged ==
    /\ pc = "start"
    /\ pc' = "samples"
    /\ UNCHANGED <<fileVars, contexts, buildVars, fqVars>>

\* IOError on opening the acceptor alignment (VaSeBuilder.py:141-143)
OpenAcceptorIOError ==
    /\ pc = "start"
    /\ pc' = "exit"
    /\ UNCHANGED <<fileVars, contexts, buildVars, fqVars>>

\* The next sample of vcfSampleMap: its VCF and BAM open (VaSeBuilder.py:45-49)
StartSample ==
    /\ pc = "samples"
    /\ sample < NumSamples
    /\ sample' = sample + 1
    /\ \E bam \in DonorBams : donorBam' = bam
    /\ openFiles' = openFiles \cup {VcfHandle(sample + 1), BamHandle(sample + 1)}
    /\ pc' = "variants"
    /\ UNCHANGED <<fileVars, contexts, acceptorBam, nvar, lastVar, donorVcfsUsed, fqVars>>

\* The failure to open a sample's files left uncaught
StartSampleIOErrorFatal ==
    /\ pc = "samples"
    /\ sample < NumSamples
    /\ sample' = sample + 1
    /\ lastVar' = [sample |-> sample + 1, outcome |-> "openfailed"]
    /\ pc' = "crashed"
    /\ UNCHANGED <<fileVars,
                   contexts, acceptorBam, donorBam, nvar, donorVcfsUsed, openFiles,
                   fqVars>>

\* IOError on opening the sample's VCF, or on opening its BAM after the VCF
\* was opened (VaSeBuilder.py:106-107): the sample is left
StartSampleIOError ==
    /\ pc = "samples"
    /\ sample < NumSamples
    /\ sample' = sample + 1
    /\ \/ UNCHANGED openFiles
       \/ openFiles' = openFiles \cup {VcfHandle(sample + 1)}
    /\ lastVar' = [sample |-> sample + 1, outcome |-> "openfailed"]
    /\ UNCHANGED <<fileVars,
                   contexts, pc, acceptorBam, donorBam, nvar, donorVcfsUsed, fqVars>>

\* The registry after the body of the loop over the variants
\* (VaSeBuilder.py:60-93) ran for vcfVar without an exception; fa and fd are
\* the first reads of the acceptor and donor read lists
InstallContext(vcfVar, aReads, dReads, fa, fd) ==
    LET acceptorContext == determineContext(aReads.reads, vcfVar.pos, fa)
        donorContext == determineContext(dReads.reads, vcfVar.pos, fd)
        variantContext == determineLargestContext(vcfVar.pos, acceptorContext, donorContext)
        vA == getVariantReads(variantContext[1], variantContext[3], variantContext[4],
                              acceptorBam)
        vD == getVariantReads(variantContext[1], variantContext[3], variantContext[4],
                              donorBam)
    IN  add_variant_context(contexts,
            VariantContext(getVcfVariantId(vcfVar), sample, variantContext,
                           vA.reads, vD.reads,
                           OverlapContext(acceptorContext, aReads.reads, aReads.unmapped),
                           OverlapContext(donorContext, dReads.reads, dReads.unmapped),
                           vA.unmapped, vD.unmapped))

\* The skip check of VaSeBuilder.py:60-64
VariantType(vcfVar) == determineVariantType(vcfVar.ref, vcfVar.alts)
SearchWindow(vcfVar) == determineReadSearchWindow(VariantType(vcfVar), vcfVar)
InContext(reg, vcfVar) ==
    variant_is_in_context(reg, VariantType(vcfVar), vcfVar.chrom,
                          SearchWindow(vcfVar)[1], SearchWindow(vcfVar)[2])

\* One record of vcfFile.fetch() (VaSeBuilder.py:52-96)
ProcessVariant ==
    /\ pc = "variants"
    /\ nvar < MaxVariants
    /\ nvar' = nvar + 1
    /\ \E vcfVar \in Variants :
        LET searchWindow == SearchWindow(vcfVar)
            aReads == getVariantReads(vcfVar.chrom, searchWindow[1], searchWindow[2],
                                      acceptorBam)
            dReads == getVariantReads(vcfVar.chrom, searchWindow[1], searchWindow[2],
                                      donorBam)
        IN  IF InContext(contexts, vcfVar)
            THEN /\ lastVar' = [variant |-> vcfVar, outcome |-> "skipped"]
                 /\ UNCHANGED <<contexts, pc>>
            ELSE IF aReads.reads = {} \/ dReads.reads = {}
            THEN \* determineLargestContext indexes the empty list returned by
                 \* determineContext: IndexError, not caught
                 /\ lastVar' = [variant |-> vcfVar, outcome |-> "crashed"]
                 /\ pc' = "crashed"
                 /\ UNCHANGED contexts
            ELSE /\ \E fa \in aReads.reads, fd \in dReads.reads :
                        contexts' = InstallContext(vcfVar, aReads, dReads, fa, fd)
                 /\ lastVar' = [variant |-> vcfVar, outcome |-> "installed"]
                 /\ UNCHANGED pc
    /\ UNCHANGED <<fileVars,
                   acceptorBam, donorBam, sample, donorVcfsUsed, openFiles, fqVars>>

\* IOError while the reads of a record are fetched (VaSeBuilder.py:97-98):
\* a warning, and the loop goes on
ProcessVariantIOError ==
    /\ pc = "variants"
    /\ nvar < MaxVariants
    /\ nvar' = nvar + 1
    /\ \E vcfVar \in Variants :
        /\ ~InContext(contexts, vcfVar)
        /\ lastVar' = [variant |-> vcfVar, outcome |-> "ioerror"]
    /\ UNCHANGED <<fileVars,
                   contexts, pc, acceptorBam, donorBam, sample, donorVcfsUsed, openFiles,
                   fqVars>>

\* The end of the sample's records (VaSeBuilder.py:101-105)
EndSample ==
    /\ pc = "variants"
    /\ openFiles' = openFiles \ {VcfHandle(sample), BamHandle(sample)}
    /\ donorVcfsUsed' = Append(donorVcfsUsed, sample)
    /\ pc' = "samples"
    /\ UNCHANGED <<fileVars,
                   contexts, acceptorBam, donorBam, sample, nvar, lastVar, fqVars>>

\* writeUsedDonorFiles (VaSeBuilder.py:342-350): a row for each sample of the
\* map whose file is in the list of used files; a row is modelled by its
\* sample
writeUsedDonorFiles(listOfUsedDonorFiles) ==
    SelectSeq([s \in 1..NumSamples |-> s], LAMBDA s : s \in Range(listOfUsedDonorFiles))

\* The variant context files and the donor tables (VaSeBuilder.py:108-116).
\* An exception of a writer that is not an IOError ends the run with the
\* files written so far.
WriteOutputs ==
    /\ pc = "samples"
    /\ sample = NumSamples
    /\ LET varcon == write_variant_context_file(contexts, NoFilter, NoFilter, NoFilter)
           stats == write_variant_context_stats(contexts)
           used == writeUsedDonorFiles(donorVcfsUsed)
       IN  IF varcon.crashed
           THEN /\ outFiles' = [n \in {"varcon"} |-> varcon.lines]
                /\ pc' = "crashed"
           ELSE IF stats.crashed
           THEN /\ outFiles' = [n \in {"varcon", "varconstats"} |->
                                   IF n = "varcon" THEN varcon.lines ELSE stats.lines]
                /\ pc' = "crashed"
           ELSE /\ outFiles' = [n \in {"varcon", "varconstats", "donorvcfs", "donorbams"} |->
                                   IF n = "varcon" THEN varcon.lines
                                   ELSE IF n = "varconstats" THEN stats.lines
                                   ELSE used]
                /\ pc' = "gather"
    /\ UNCHANGED <<contexts, buildVars, fqVars, loaded>>

Init ==
    /\ contexts = <<>>
    /\ pc = "start"
    /\ acceptorBam \in AcceptorBams
    /\ donorBam = {}
    /\ sample = 0
    /\ nvar = 0
    /\ lastVar = [outcome |-> "none"]
    /\ donorVcfsUsed = <<>>
    /\ openFiles = {}
    /\ fastq = <<>>
    /\ fqOut = [o \in Orientations |-> <<>>]
    /\ acceptorReadsToSkip = {}
    /\ donorReads = <<>>
    /\ outFiles = NoFiles
    /\ loaded = <<>>

Next ==
    \/ OpenAcceptor
    \/ OpenAcceptorIOError
    \/ StartSample
    \/ StartSampleIOError
    \/ ProcessVariant
    \/ ProcessVariantIOError
    \/ EndSample
    \/ WriteOutputs

Spec == Init /\ [][Next]_vars

(***************************************************************************)
(* The writer on its own: a registry as the builder leaves it (every       *)
(* context with both mates of each of its reads) and the acceptor FASTQs   *)
(* the acceptor alignment was made from.                                   *)
(***************************************************************************)
BothMates(id) == {DonorBamRead(id, pn, 1, 0, 2) : pn \in {1, 2}}

FqContext(k, a, d) ==
    VariantContext(<<1, k>>, 1, <<1, k, 0, k + 1>>, BothMates(a), BothMates(d),
                   OverlapContext(<<1, k, 0, k + 1>>, BothMates(a), {}),
                   OverlapContext(<<1, k, 0, k + 1>>, BothMates(d), {}), {}, {})

FqRegistries ==
    UNION {[1..n -> AccIds \X DonIds] : n \in 0..MaxFqContexts}

FqRegistry(f) == [k \in DOMAIN f |-> FqContext(k, f[k][1], f[k][2])]

\* A quality line may begin with '@' (Phred 31); a sequence line of a valid
\* FASTQ file does not.
AtChoices == {0, 4}

RECURSIVE SumTo(_, _)
SumTo(lens, n) == IF n = 0 THEN 0 ELSE lens[n] + SumTo(lens, n - 1)

\* The lanes of lengths lens holding, in file order, the records with the
\* identifiers ids and the '@' flags ats
FqInput(lens, ids, ats) ==
    [x \in DOMAIN lens |->
        [i \in 1..lens[x] |->
            [id |-> ids[SumTo(lens, x - 1) + i],
             atF |-> ats[SumTo(lens, x - 1) + i][1],
             atR |-> ats[SumTo(lens, x - 1) + i][2]]]]

FqIds(fq) == Flatten([x \in DOMAIN fq |-> [i \in DOMAIN fq[x] |-> fq[x][i].id]])
Distinct(s) == \A i, j \in DOMAIN s : s[i] = s[j] => i = j

InitFq ==
    /\ \E f \in FqRegistries : contexts = FqRegistry(f)
    /\ \E n \in 1..MaxLanes : \E lens \in [1..n -> 0..MaxRecs] :
          /\ SumTo(lens, n) <= NumAccIds
          /\ \E ids \in [1..SumTo(lens, n) -> AccIds] :
                /\ Distinct(ids)
                /\ \E ats \in [1..SumTo(lens, n) -> AtChoices \X AtChoices] :
                      fastq = FqInput(lens, ids, ats)
    /\ get_all_variant_context_acceptor_read_ids(contexts) \subseteq Range(FqIds(fastq))
    /\ pc = "gather"
    /\ acceptorBam = {}
    /\ donorBam = {}
    /\ sample = 0
    /\ nvar = 0
    /\ lastVar = [outcome |-> "none"]
    /\ donorVcfsUsed = <<>>
    /\ openFiles = {AcceptorHandle}
    /\ fqOut = [o \in Orientations |-> <<>>]
    /\ acceptorReadsToSkip = {}
    /\ donorReads = <<>>
    /\ outFiles = NoFiles
    /\ loaded = <<>>

NextFq == GatherReads \/ WriteVaSeFastQ \/ WriteVaSeFastQIOError \/ CloseAcceptor

SpecFq == InitFq /\ [][NextFq]_vars

(***************************************************************************)
(* What the properties of the writer speak of                              *)
(***************************************************************************)
RegistryAcceptorIds == get_all_variant_context_acceptor_read_ids(contexts)

\* The orientation whose lane was being written when the run ended early
FqEndedIn == IF fqOut["R"] # <<>> THEN "R" ELSE "F"

\* writeVaSeFastQ returned for lane x of orientation fR
LaneDone(fR, x) ==
    /\ x \in DOMAIN fqOut[fR]
    /\ ~(pc \in {"crashed", "exit"} /\ fR = FqEndedIn /\ x = Len(fqOut[fR]))

\* buildFastQ returned for orientation fR
OrientationDone(fR) == \A x \in 1..NumLanes : LaneDone(fR, x)

\* A file read as FASTQ: its consecutive groups of four lines
Framed(out) == [k \in 1..(Len(out) \div 4) |-> SubSeq(out, 4 * (k - 1) + 1, 4 * k)]

\* The records of the input file of lane x of orientation fR
InRecords(fR, x) ==
    [i \in DOMAIN fastq[x] |->
        RecLines(fastq[x][i].id,
                 IF fR = "F" THEN fastq[x][i].atF ELSE fastq[x][i].atR,
                 PairNumber(fR))]

IsAcceptorLine(l) == l.src = "A"
IsDonorLine(l) == l.src = "D"
AcceptorPart(out) == SelectSeq(out, IsAcceptorLine)
DonorPart(out) == SelectSeq(out, IsDonorLine)

RECURSIVE IsSubsequence(_, _)
IsSubsequence(s, t) ==
    IF s = <<>> THEN TRUE
    ELSE IF t = <<>> THEN FALSE
    ELSE IF Head(s) = Head(t) THEN IsSubsequence(Tail(s), Tail(t))
         ELSE IsSubsequence(s, Tail(t))

Count(s, e) == Cardinality({i \in DOMAIN s : s[i] = e})
SameBag(s, t) ==
    /\ Len(s) = Len(t)
    /\ \A e \in Range(s) \cup Range(t) : Count(s, e) = Count(t, e)

RECURSIVE SumLen(_)
SumLen(ss) == IF ss = <<>> THEN 0 ELSE Len(Head(ss)) + SumLen(Tail(ss))

\* The identifiers a FASTQ reader finds in a file: the header text of each record
RecordIds(out) == [k \in DOMAIN Framed(out) |-> HeaderText(Framed(out)[k][1])]

\* C1: in every lane written, of either orientation, a record of the acceptor
\* input is absent from the output exactly when its identifier is one of the
\* registry's acceptor read identifiers.
C1_OmittedIffInRegistry ==
    \A fR \in Orientations : \A x \in DOMAIN fastq :
        LaneDone(fR, x) =>
            \A i \in DOMAIN fastq[x] :
                (InRecords(fR, x)[i] \notin Range(Framed(fqOut[fR][x])))
                    <=> (fastq[x][i].id \in RegistryAcceptorIds)

\* C2: once buildFastQ has returned for an orientation, the records of its
\* output lanes number the acceptor records of its input lanes, minus the
\* registry's acceptor read identifiers, plus the donor reads of its pair number.
C2_TotalReadCount ==
    \A fR \in Orientations :
        OrientationDone(fR) =>
            SumLen([x \in DOMAIN fastq |-> Framed(fqOut[fR][x])])
                = SumLen(fastq) - Cardinality(RegistryAcceptorIds)
                  + Len(SelectRequired(donorReads, fR))

\* C3: once buildFastQ has returned for an orientation, the donor reads are in
\* the output of the last lane only, after its acceptor records, and are
\* exactly the donor reads of the orientation's pair number; every acceptor
\* record of an output is a record of the input file of its own lane.
C3_DonorsOnLastLaneOnly ==
    \A fR \in Orientations :
        OrientationDone(fR) =>
            \A x \in DOMAIN fastq :
                LET out == fqOut[fR][x] IN
                /\ out = AcceptorPart(out) \o DonorPart(out)
                /\ Len(AcceptorPart(out)) % 4 = 0
                /\ Range(Framed(AcceptorPart(out))) \subseteq Range(InRecords(fR, x))
                /\ x < NumLanes => DonorPart(out) = <<>>
                /\ x = NumLanes =>
                      SameBag(Framed(DonorPart(out)),
                              [i \in DOMAIN SelectRequired(donorReads, fR) |->
                                  getAsFastQSeq(SelectRequired(donorReads, fR)[i])])

\* C4: the donor records at the end of a last lane's output are in ascending
\* order of read identifier, records of one identifier in the order of their
\* pair numbers, whatever the order of the contexts in the registry and of the
\* reads in each context.
C4_DonorBlockSorted ==
    \A fR \in Orientations :
        LaneDone(fR, NumLanes) =>
            LET don == Framed(DonorPart(fqOut[fR][NumLanes])) IN
            \A i, j \in DOMAIN don :
                i < j => \/ don[i][1].id < don[j][1].id
                         \/ don[i][1].id = don[j][1].id /\ don[i][1].pn <= don[j][1].pn

\* C4's case: a last lane written from a registry whose first context holds
\* the donor reads of the greater identifier
C4_Witness ==
    /\ LaneDone("F", NumLanes)
    /\ Len(contexts) = 2
    /\ \E r \in contexts[1].dreads : \E q \in contexts[2].dreads : r.id > q.id
    /\ Len(Framed(DonorPart(fqOut["F"][NumLanes]))) = 2

\* C5: the acceptor records of every output lane are a subsequence of the
\* records of the lane's input file.
C5_AcceptorOrderPreserved ==
    \A fR \in Orientations : \A x \in DOMAIN fastq :
        LaneDone(fR, x) =>
            IsSubsequence(Framed(AcceptorPart(fqOut[fR][x])), InRecords(fR, x))

\* C6: the forward and reverse inputs of a lane list the same identifiers in
\* the same order (fastq pairs them); then the forward and the reverse output
\* of the lane hold the same sequence of read identifiers.
C6_PairStructurePreserved ==
    \A x \in DOMAIN fastq :
        (LaneDone("F", x) /\ LaneDone("R", x)) =>
            RecordIds(fqOut["F"][x]) = RecordIds(fqOut["R"][x])


(***************************************************************************)
(* The skip check on its own: a registry of contexts with any intervals    *)
(* (as one read by read_variant_context_file) is asked about variant       *)
(* records and about intervals.                                            *)
(***************************************************************************)
QueryIntervals ==
    { t \in (1..NumChroms) \X (0..MaxCoord) \X (0..MaxCoord) : t[2] <= t[3] }

\* A context on chromosome t[1] with the interval [t[2], t[3]]
QueryContext(t) ==
    VariantContext(<<t[1], t[2]>>, 1, <<t[1], t[2], t[2], t[3]>>, {}, {},
                   OverlapContext(<<t[1], t[2], t[2], t[3]>>, {}, {}),
                   OverlapContext(<<t[1], t[2], t[2], t[3]>>, {}, {}), {}, {})

\* The keys of a registry are distinct
QueryRegistries ==
    { f \in UNION {[1..n -> QueryIntervals] : n \in 0..MaxQueryContexts} :
        \A i, j \in DOMAIN f : (f[i][1] = f[j][1] /\ f[i][2] = f[j][2]) => i = j }

AlleleLengths == UNION {[1..n -> 1..MaxAlleleLen] : n \in 1..MaxAlleles}

QueryVariants ==
    { [chrom |-> c, pos |-> p, ref |-> r, alts |-> a] :
        c \in 1..NumChroms, p \in 1..MaxCoord, r \in AlleleLengths, a \in AlleleLengths }

\* VaSeBuilder.py:59-63 for one record: its type, its search window and the
\* answer of the registry
SkipCheck ==
    /\ pc = "query"
    /\ \E vcfVar \in QueryVariants :
          lastVar' = [variant |-> vcfVar,
                      type |-> VariantType(vcfVar),
                      window |-> SearchWindow(vcfVar),
                      outcome |-> IF InContext(contexts, vcfVar) THEN "skipped"
                                                                 ELSE "searched"]
    /\ pc' = "answered"
    /\ UNCHANGED <<fileVars, contexts, acceptorBam, donorBam, sample, nvar, donorVcfsUsed,
                   openFiles, fqVars>>

\* indel_variant_is_in_context asked about the interval [qs, qe] of a chromosome
IndelQuery ==
    /\ pc = "query"
    /\ \E t \in QueryIntervals :
          lastVar' = [query |-> t,
                      outcome |-> IF indel_variant_is_in_context(contexts, t[1], t[2], t[3])
                                  THEN "in" ELSE "out"]
    /\ pc' = "answered"
    /\ UNCHANGED <<fileVars, contexts, acceptorBam, donorBam, sample, nvar, donorVcfsUsed,
                   openFiles, fqVars>>

InitQuery ==
    /\ \E f \in QueryRegistries : contexts = [k \in DOMAIN f |-> QueryContext(f[k])]
    /\ pc = "query"
    /\ acceptorBam = {}
    /\ donorBam = {}
    /\ sample = 0
    /\ nvar = 0
    /\ lastVar = [outcome |-> "none"]
    /\ donorVcfsUsed = <<>>
    /\ openFiles = {}
    /\ fastq = <<>>
    /\ fqOut = [o \in Orientations |-> <<>>]
    /\ acceptorReadsToSkip = {}
    /\ donorReads = <<>>
    /\ outFiles = NoFiles
    /\ loaded = <<>>

NextQuery == SkipCheck \/ IndelQuery

SpecQuery == InitQuery /\ [][NextQuery]_vars

(***************************************************************************)
(* A registry saved to a variant context file and a second registry built  *)
(* from that file (VariantContextFile(fileloc, samplefilter, varconfilter, *)
(* chromfilter)), each with its own allow-lists.                           *)
(***************************************************************************)
FileContext(k, s, c) ==
    VariantContext(<<c, k>>, s, <<c, k, k - 1, k + 1>>, BothMates(1), BothMates(1),
                   OverlapContext(<<c, k, k - 1, k + 1>>, BothMates(1), {}),
                   OverlapContext(<<c, k, k - 1, k + 1>>, BothMates(1), {}), {}, {})

FileRegistries ==
    UNION {[1..n -> (1..NumSamples) \X (1..NumChroms)] : n \in 0..MaxFileContexts}

FileRegistry(f) == [k \in DOMAIN f |-> FileContext(k, f[k][1], f[k][2])]

\* None, or a list of some of the values U
FilterChoices(U) == {NoFilter} \cup {Filter(S) : S \in SUBSET U}

\* contexts.write_variant_context_file(outfileloc, samplefilter,
\* varconfilter, chromfilter) (VariantContextFile.py:374-401)
WriteVariantContextFile ==
    /\ pc = "save"
    /\ \E samplefilter \in FilterChoices(1..NumSamples),
          varconfilter \in FilterChoices({contexts[i].id : i \in DOMAIN contexts}),
          chromfilter \in FilterChoices(1..NumChroms) :
          LET w == write_variant_context_file(contexts, samplefilter, varconfilter,
                                              chromfilter)
          IN  /\ outFiles' = [n \in {"varcon"} |-> w.lines]
              /\ lastVar' = [op |-> "write", samplefilter |-> samplefilter,
                             varconfilter |-> varconfilter, chromfilter |-> chromfilter,
                             outcome |-> IF w.crashed THEN "crashed" ELSE "written"]
              /\ pc' = IF w.crashed THEN "crashed" ELSE "load"
    /\ UNCHANGED <<contexts, acceptorBam, donorBam, sample, nvar, donorVcfsUsed,
                   openFiles, fqVars, loaded>>

\* VariantContextFile(fileloc, samplefilter, varconfilter, chromfilter)
\* (VariantContextFile.py:10-31, 91-145) on the file written
ReadVariantContextFile ==
    /\ pc = "load"
    /\ \E samplefilter \in FilterChoices(1..NumSamples),
          varconfilter \in FilterChoices({contexts[i].id : i \in DOMAIN contexts}),
          chromfilter \in FilterChoices(1..NumChroms) :
          LET r == read_variant_context_file(outFiles["varcon"], samplefilter,
                                             varconfilter, chromfilter)
          IN  /\ loaded' = r.contexts
              /\ lastVar' = [op |-> "read", samplefilter |-> samplefilter,
                             varconfilter |-> varconfilter, chromfilter |-> chromfilter,
                             written |-> lastVar,
                             outcome |-> IF r.crashed THEN "crashed" ELSE "loaded"]
              /\ pc' = IF r.crashed THEN "crashed" ELSE "loaded"
    /\ UNCHANGED <<contexts, acceptorBam, donorBam, sample, nvar, donorVcfsUsed,
                   openFiles, fqVars, outFiles>>

InitFile ==
    /\ \E f \in FileRegistries : contexts = FileRegistry(f)
    /\ pc = "save"
    /\ acceptorBam = {}
    /\ donorBam = {}
    /\ sample = 0
    /\ nvar = 0
    /\ lastVar = [outcome |-> "none"]
    /\ donorVcfsUsed = <<>>
    /\ openFiles = {}
    /\ fastq = <<>>
    /\ fqOut = [o \in Orientations |-> <<>>]
    /\ acceptorReadsToSkip = {}
    /\ donorReads = <<>>
    /\ outFiles = NoFiles
    /\ loaded = <<>>

NextFile == WriteVariantContextFile \/ ReadVariantContextFile

SpecFile == InitFile /\ [][NextFile]_vars

(***************************************************************************)
(* The parameter check (ParamChecker.py).  A parameter value is "None"     *)
(* (not supplied), "missing" (a path that does not exist) or "exists";     *)
(* for out, "exists" is a name in an existing directory.                   *)
(***************************************************************************)
RunModes == {"A", "AC", "D", "DC", "F", "FC", "P", "PC", "X", "XC"}

\* The path parameters of the command line
PathParameters ==
    {"donorvcf", "donorbam", "acceptorbam", "templatefq1", "templatefq2", "out",
     "reference", "varconin", "donorfastqs"}

\* self.required_mode_parameters (ParamChecker.py:24-40)
required_mode_parameters(runmode) ==
    CASE runmode \in {"A", "AC"} ->
            {"runmode", "templatefq1", "templatefq2", "donorfastqs", "varconin", "out"}
      [] runmode \in {"D", "P", "X"} ->
            {"runmode", "donorvcf", "donorbam", "acceptorbam", "out", "reference"}
      [] runmode \in {"DC", "PC", "XC"} ->
            {"runmode", "donorvcf", "donorbam", "out", "reference", "varconin"}
      [] runmode = "F" ->
            {"runmode", "donorvcf", "donorbam", "acceptorbam", "templatefq1",
             "templatefq2", "out", "reference"}
      [] runmode = "FC" ->
            {"runmode", "donorvcf", "donorbam", "templatefq1", "templatefq2", "out",
             "reference", "varconin"}

\* required_parameters_set (ParamChecker.py:44-54)
required_parameters_set(runmode, vase_arg_vals) ==
    IF runmode \in RunModes
    THEN \A reqparam \in required_mode_parameters(runmode) :
            vase_arg_vals[reqparam] # "None"
    ELSE FALSE

\* The test check_parameters makes of one parameter (ParamChecker.py:139-227):
\* a missing donor FASTQ list is only warned about (lines 221-227)
ParameterOk(param, vase_arg_vals) ==
    CASE param \in {"donorvcf", "donorbam", "acceptorbam", "templatefq1", "templatefq2",
                    "out", "reference"} -> vase_arg_vals[param] = "exists"
      [] param = "runmode" -> vase_arg_vals[param] \in RunModes
      [] param = "varconin" -> vase_arg_vals[param] \in {"None", "exists"}
      [] param = "donorfastqs" -> TRUE

\* check_parameters (ParamChecker.py:133-228)
check_parameters(vase_arg_vals) ==
    \A param \in DOMAIN vase_arg_vals : ParameterOk(param, vase_arg_vals)

\* check_required_runmode_parameters (ParamChecker.py:231-240); the optional
\* parameters it adds (fastqout, varcon, variantlist) fail no test
check_required_runmode_parameters(runmode, vaseargvals) ==
    IF runmode \in RunModes
    THEN check_parameters([k \in required_mode_parameters(runmode) |-> vaseargvals[k]])
    ELSE FALSE

\* The run modes asked for: the ten of the table and one that is not in it
RequestedModes == RunModes \cup {"Z"}

\* required_parameters_set followed by check_required_runmode_parameters
CheckParameters ==
    /\ pc = "params"
    /\ \E runmode \in RequestedModes, paths \in [PathParameters -> {"None", "missing", "exists"}] :
          LET vase_arg_vals == [k \in PathParameters \cup {"runmode"} |->
                                  IF k = "runmode" THEN runmode ELSE paths[k]]
          IN  lastVar' = [runmode |-> runmode, args |-> vase_arg_vals,
                          outcome |->
                             IF /\ required_parameters_set(runmode, vase_arg_vals)
                                /\ check_required_runmode_parameters(runmode, vase_arg_vals)
                             THEN "accepted" ELSE "rejected"]
    /\ pc' = "answered"
    /\ UNCHANGED <<fileVars, contexts, acceptorBam, donorBam, sample, nvar, donorVcfsUsed,
                   openFiles, fqVars>>

InitParam ==
    /\ contexts = <<>>
    /\ pc = "params"
    /\ acceptorBam = {}
    /\ donorBam = {}
    /\ sample = 0
    /\ nvar = 0
    /\ lastVar = [outcome |-> "none"]
    /\ donorVcfsUsed = <<>>
    /\ openFiles = {}
    /\ fastq = <<>>
    /\ fqOut = [o \in Orientations |-> <<>>]
    /\ acceptorReadsToSkip = {}
    /\ donorReads = <<>>
    /\ outFiles = NoFiles
    /\ loaded = <<>>

NextParam == CheckParameters

SpecParam == InitParam /\ [][NextParam]_vars

(***************************************************************************)
(* What the properties of the builder speak of                             *)
(***************************************************************************)
\* The interval of a context holds the position q
Contains(varcon, q) == varcon.start <= q /\ q <= varcon.end

\* A step that took a record from a sample's VCF
VariantProcessed == nvar' = nvar + 1

\* C7: every context stored in the registry has start <= origin <= end, a
\* non-empty acceptor read set and a non-empty donor read set.
C7_ContextsWellFormed ==
    \A i \in DOMAIN contexts :
        /\ contexts[i].start <= contexts[i].origin
        /\ contexts[i].origin <= contexts[i].end
        /\ contexts[i].areads # {}
        /\ contexts[i].dreads # {}

\* C8: of two distinct contexts of the registry on the same chromosome,
\* neither has its origin in the interval [start, end] of the other.
C8_OriginsNotContained ==
    \A i, j \in DOMAIN contexts :
        (i # j /\ contexts[i].chrom = contexts[j].chrom)
            => ~Contains(contexts[j], contexts[i].origin)

\* C9: first-seen-wins: an entry of the registry keeps its place, its sample
\* id, origin, start, end and read sets in every later step of the run.
C9_FirstSeenWins ==
    [][\A i \in DOMAIN contexts :
            /\ i \in DOMAIN contexts'
            /\ contexts'[i].id = contexts[i].id
            /\ contexts'[i].sample = contexts[i].sample
            /\ contexts'[i].origin = contexts[i].origin
            /\ contexts'[i].start = contexts[i].start
            /\ contexts'[i].end = contexts[i].end
            /\ contexts'[i].areads = contexts[i].areads
            /\ contexts'[i].dreads = contexts[i].dreads]_vars

\* C10: an SNP record is skipped if and only if the registry holds a context
\* on the record's chromosome with start <= pos <= end.
C10_SnpSkipIffPosInContext ==
    [][(VariantProcessed /\ VariantType(lastVar'.variant) = "snp")
        => ((lastVar'.outcome = "skipped")
             <=> \E i \in DOMAIN contexts :
                    /\ contexts[i].chrom = lastVar'.variant.chrom
                    /\ Contains(contexts[i], lastVar'.variant.pos))]_vars


\* The closed intervals [qs, qe] and [c.start, c.end] have a common position
Intersects(varcon, qs, qe) == qs <= varcon.end /\ qe >= varcon.start

\* C11: indel_variant_is_in_context answers true if and only if some context
\* on the chromosome of the query has a closed interval that intersects
\* [qs, qe].
C11_IndelCheckIsIntersection ==
    lastVar.outcome \in {"in", "out"}
        => ((lastVar.outcome = "in")
             <=> \E i \in DOMAIN contexts :
                    /\ contexts[i].chrom = lastVar.query[1]
                    /\ Intersects(contexts[i], lastVar.query[2], lastVar.query[3]))

\* An interval strictly inside a context, found by the third sub-case alone
C11_Witness ==
    /\ lastVar.outcome = "in"
    /\ \E i \in DOMAIN contexts :
          /\ contexts[i].chrom = lastVar.query[1]
          /\ contexts[i].start < lastVar.query[2]
          /\ lastVar.query[3] < contexts[i].end
    /\ \A i \in DOMAIN contexts :
          contexts[i].chrom = lastVar.query[1]
              => (contexts[i].start < lastVar.query[2] /\ lastVar.query[3] < contexts[i].end)


\* The record of the last skip check
Checked == lastVar.outcome \in {"skipped", "searched"}

\* The window [ws, we] and the context share a boundary position
Touches(varcon, ws, we) == we = varcon.start \/ ws = varcon.end

\* C12 as stated: a variant, SNP or indel, whose search window has its end
\* at the start of a context on its chromosome, or its start at the end of
\* one, is skipped.
C12_BoundaryTouchSkipped ==
    (/\ Checked
     /\ \E i \in DOMAIN contexts :
           /\ contexts[i].chrom = lastVar.variant.chrom
           /\ Touches(contexts[i], lastVar.window[1], lastVar.window[2]))
        => lastVar.outcome = "skipped"

\* C12 as the code has it: an indel whose search window shares a boundary
\* position with a context on its chromosome is skipped; of the window of an
\* SNP only the start is tested, so the SNP is skipped when the window starts
\* at the end of a context and is skipped only if some context holds the
\* start of the window.
C12_BoundaryTouchByType ==
    Checked =>
        /\ (/\ lastVar.type = "indel"
            /\ \E i \in DOMAIN contexts :
                  /\ contexts[i].chrom = lastVar.variant.chrom
                  /\ Touches(contexts[i], lastVar.window[1], lastVar.window[2]))
              => lastVar.outcome = "skipped"
        /\ (/\ lastVar.type = "snp"
            /\ \E i \in DOMAIN contexts :
                  /\ contexts[i].chrom = lastVar.variant.chrom
                  /\ lastVar.window[1] = contexts[i].end)
              => lastVar.outcome = "skipped"
        /\ (lastVar.type = "snp" /\ lastVar.outcome = "skipped")
              => \E i \in DOMAIN contexts :
                    /\ contexts[i].chrom = lastVar.variant.chrom
                    /\ Contains(contexts[i], lastVar.window[1])

\* An indel skipped for the one context of the registry, which begins where
\* the search window ends
C12_Witness ==
    /\ Checked
    /\ lastVar.type = "indel"
    /\ lastVar.outcome = "skipped"
    /\ Len(contexts) = 1
    /\ contexts[1].chrom = lastVar.variant.chrom
    /\ lastVar.window[2] = contexts[1].start
    /\ lastVar.window[1] < contexts[1].start


\* The first read retrieval for vcfVar (VaSeBuilder.py:68, 74) finds no
\* acceptor reads or no donor reads
NoCoverage(vcfVar) ==
    \/ getVariantReads(vcfVar.chrom, SearchWindow(vcfVar)[1], SearchWindow(vcfVar)[2],
                       acceptorBam).reads = {}
    \/ getVariantReads(vcfVar.chrom, SearchWindow(vcfVar)[1], SearchWindow(vcfVar)[2],
                       donorBam).reads = {}

\* C13: a variant whose read retrieval returns an empty acceptor or an empty
\* donor read set is discarded: the registry is left as it was, the variant
\* is logged as lacking coverage and the builder goes on to the next variant.
C13_EmptyCoverageDiscarded ==
    [][(/\ VariantProcessed
        /\ lastVar'.outcome \notin {"skipped", "ioerror"}
        /\ NoCoverage(lastVar'.variant))
          => (/\ contexts' = contexts
              /\ lastVar'.outcome = "nocoverage"
              /\ pc' = "variants")]_vars


\* A step in which a sample's files could not be opened, or a read fetch
\* raised IOError
OpenFailed ==
    sample' # sample /\ lastVar'.outcome = "openfailed" /\ lastVar'.sample = sample'
FetchFailed == VariantProcessed /\ lastVar'.outcome = "ioerror"

\* C14: when a sample's variant file or alignment cannot be opened the
\* sample is left, when a read fetch raises IOError the variant is left; the
\* registry keeps every context it has and the builder stays in its loop
\* over the samples and their variants.
C14_IOErrorsAreSkipped ==
    [][/\ OpenFailed => (contexts' = contexts /\ pc' = "samples")
       /\ FetchFailed => (contexts' = contexts /\ pc' = "variants")]_vars

\* The second sample could not be opened and the context of the first is kept
C14_Witness ==
    /\ lastVar.outcome = "openfailed"
    /\ lastVar.sample = NumSamples
    /\ pc = "samples"
    /\ Len(contexts) > 0


\* The lengths of all alleles of a record
AllAlleleLengths(vcfVar) == Range(vcfVar.ref) \cup Range(vcfVar.alts)

\* C15: determineVariantType answers "snp" exactly when every reference and
\* every alternative allele has length 1, and "indel" whenever some allele,
\* be it one alternative of several, is longer.
C15_TypeByAlleleLength ==
    Checked =>
        /\ (lastVar.type = "snp") <=> (\A n \in AllAlleleLengths(lastVar.variant) : n = 1)
        /\ (\E n \in AllAlleleLengths(lastVar.variant) : n > 1) => lastVar.type = "indel"

\* A record with two alternative alleles of which only the second is long
C15_Witness ==
    /\ Checked
    /\ lastVar.type = "indel"
    /\ lastVar.variant.ref = <<1>>
    /\ Len(lastVar.variant.alts) = 2
    /\ lastVar.variant.alts[1] = 1
    /\ lastVar.variant.alts[2] > 1

\* C16: the search window is [pos-1, pos+1] for an SNP and [pos, pos+L] for
\* an indel, L the greatest length of all reference and alternative alleles.
C16_SearchWindow ==
    Checked =>
        /\ lastVar.type = "snp"
              => lastVar.window = << lastVar.variant.pos - 1, lastVar.variant.pos + 1 >>
        /\ lastVar.type = "indel"
              => lastVar.window = << lastVar.variant.pos,
                                     lastVar.variant.pos
                                        + SetMax(AllAlleleLengths(lastVar.variant)) >>

\* An indel whose longest allele is a reference allele
C16_Witness ==
    /\ Checked
    /\ lastVar.type = "indel"
    /\ SeqMax(lastVar.variant.ref) > SeqMax(lastVar.variant.alts)
    /\ lastVar.window[2] = lastVar.variant.pos + SeqMax(lastVar.variant.ref)


\* Each identifier of the read set has two reads, one of each pair number
ClosedUnderPairing(reads) ==
    \A r \in reads :
        /\ Cardinality({q \in reads : getBamReadId(q) = getBamReadId(r)}) = 2
        /\ {q.pn : q \in {x \in reads : getBamReadId(x) = getBamReadId(r)}} = {1, 2}

\* No read of the set has its identifier in the unmapped-mate list
MatelessLeftOut(reads, unmapped) == {getBamReadId(r) : r \in reads} \cap unmapped = {}

\* C17: every read set returned by getVariantReads holds each of its
\* identifiers exactly twice, once with each pair number, and no read whose
\* mate is missing; the four read sets of every stored context are such sets.
C17_ReadSetsClosedUnderPairing ==
    \A i \in DOMAIN contexts :
        /\ ClosedUnderPairing(contexts[i].areads)
        /\ ClosedUnderPairing(contexts[i].dreads)
        /\ ClosedUnderPairing(contexts[i].acon.reads)
        /\ ClosedUnderPairing(contexts[i].dcon.reads)
        /\ MatelessLeftOut(contexts[i].areads, contexts[i].uA)
        /\ MatelessLeftOut(contexts[i].dreads, contexts[i].uD)
        /\ MatelessLeftOut(contexts[i].acon.reads, contexts[i].acon.unmapped)
        /\ MatelessLeftOut(contexts[i].dcon.reads, contexts[i].dcon.unmapped)


\* C18: an acceptor read that overlaps the variant of a context and whose
\* mate was not found (its identifier is in the unmapped list of the first
\* retrieval) has its identifier in the context's unmapped acceptor mate
\* ids, is not among the context's acceptor reads, and is not in the list of
\* identifiers that writeVaSeFastQ leaves out.
C18_UnmappedMateKept ==
    \A i \in DOMAIN contexts :
        \A id \in contexts[i].acon.unmapped :
            /\ id \in contexts[i].uA
            /\ \A r \in contexts[i].areads : getBamReadId(r) # id
            /\ id \notin get_all_variant_context_acceptor_read_ids(contexts)


\* C19: every stored context starts at the lesser of the starts of its
\* acceptor and donor overlap, ends at the greater of their ends and has the
\* position of its variant as origin; its interval holds both overlaps.
C19_LargestContext ==
    \A i \in DOMAIN contexts :
        /\ contexts[i].start = Min2(contexts[i].acon.start, contexts[i].dcon.start)
        /\ contexts[i].end = Max2(contexts[i].acon.end, contexts[i].dcon.end)
        /\ contexts[i].origin = contexts[i].id[2]
        /\ contexts[i].start <= contexts[i].acon.start
        /\ contexts[i].start <= contexts[i].dcon.start
        /\ contexts[i].acon.end <= contexts[i].end
        /\ contexts[i].dcon.end <= contexts[i].end

\* A context that starts with its donor overlap and ends with its acceptor
\* overlap
C19_Witness ==
    \E i \in DOMAIN contexts :
        /\ contexts[i].dcon.start < contexts[i].acon.start
        /\ contexts[i].dcon.end < contexts[i].acon.end
        /\ contexts[i].start = contexts[i].dcon.start
        /\ contexts[i].end = contexts[i].acon.end

\* C20: the reads of every overlap and of every stored context lie on the
\* chromosome of the overlap or context, and the chromosome of the context
\* is that of its acceptor overlap, of its donor overlap and of its variant.
C20_ChromosomeConsistent ==
    \A i \in DOMAIN contexts :
        /\ \A r \in contexts[i].acon.reads : getBamReadChrom(r) = contexts[i].acon.chrom
        /\ \A r \in contexts[i].dcon.reads : getBamReadChrom(r) = contexts[i].dcon.chrom
        /\ \A r \in contexts[i].areads \cup contexts[i].dreads :
              getBamReadChrom(r) = contexts[i].chrom
        /\ contexts[i].chrom = contexts[i].acon.chrom
        /\ contexts[i].chrom = contexts[i].dcon.chrom
        /\ contexts[i].chrom = contexts[i].id[1]

(***************************************************************************)
(* Saving and loading a registry                                           *)
(***************************************************************************)
\* The allow-lists of the call made last accept the record rec
Accepted(rec) ==
    /\ lastVar.samplefilter.supplied => rec.sample \in lastVar.samplefilter.list
    /\ lastVar.varconfilter.supplied => rec.id \in lastVar.varconfilter.list
    /\ lastVar.chromfilter.supplied => rec.chrom \in lastVar.chromfilter.list

\* The records of the file written
SavedFile == outFiles["varcon"]

\* C21: when a registry is saved or loaded with the three optional
\* allow-lists, a record is kept exactly when it satisfies every allow-list
\* that was supplied; an allow-list that was not supplied accepts every
\* record.
C21_KeptIffEveryFilterPasses ==
    /\ lastVar.outcome # "none" /\ lastVar.op = "write" =>
          \A i \in DOMAIN contexts :
             (\E j \in DOMAIN SavedFile : SavedFile[j].id = contexts[i].id)
                <=> Accepted(contexts[i])
    /\ lastVar.outcome # "none" /\ lastVar.op = "read" =>
          \A j \in DOMAIN SavedFile :
             (\E i \in DOMAIN loaded : loaded[i].id = SavedFile[j].id)
                <=> Accepted(SavedFile[j])

\* The (context_id, chrom, origin, start, end) tuples of a registry
ContextTuples(reg) ==
    {<<reg[i].id, reg[i].chrom, reg[i].origin, reg[i].start, reg[i].end>> :
        i \in DOMAIN reg}

Unfiltered(call) ==
    /\ ~call.samplefilter.supplied
    /\ ~call.varconfilter.supplied
    /\ ~call.chromfilter.supplied

\* C22: a registry saved without allow-lists and loaded back without
\* allow-lists has the same set of (context_id, chrom, origin, start, end)
\* tuples as the registry that was saved.
C22_RoundTripPreservesContexts ==
    pc \in {"loaded", "crashed"} /\ lastVar.op = "read"
       /\ Unfiltered(lastVar) /\ Unfiltered(lastVar.written)
       => ContextTuples(loaded) = ContextTuples(contexts)

(***************************************************************************)
(* The donor tables                                                        *)
(***************************************************************************)
\* The samples that have a context in the registry
Contributors == {contexts[i].sample : i \in DOMAIN contexts}

\* C23: donorvcfs.txt and donorbams.txt list exactly the samples that
\* contributed at least one context to the registry; a sample whose files
\* were read but that installed no context is in neither table.
C23_DonorTablesListContributors ==
    \A table \in {"donorvcfs", "donorbams"} :
       table \in DOMAIN outFiles => Range(outFiles[table]) = Contributors

(***************************************************************************)
(* The parameter check                                                     *)
(***************************************************************************)
ParamsChecked == pc = "answered" /\ lastVar.outcome \in {"accepted", "rejected"}

\* C24: for every run mode of {A, AC, D, DC, F, FC, P, PC, X, XC} the
\* parameter check succeeds only if every parameter required for the mode
\* is supplied and the path it names exists; a run mode outside the set is
\* always rejected.
C24_AcceptedOnlyIfRequiredExist ==
    ParamsChecked /\ lastVar.outcome = "accepted" =>
       /\ lastVar.runmode \in RunModes
       /\ \A p \in required_mode_parameters(lastVar.runmode) \ {"runmode"} :
             lastVar.args[p] = "exists"

\* C25: the check for run mode FC fails when acceptorbam or donorbam is not
\* supplied.
C25_FCNeedsBothAlignments ==
    ParamsChecked /\ lastVar.runmode = "FC"
       /\ (lastVar.args["acceptorbam"] = "None" \/ lastVar.args["donorbam"] = "None")
       => lastVar.outcome = "rejected"

(***************************************************************************)
(* Files                                                                   *)
(***************************************************************************)
NothingDone ==
    /\ sample' = 0 /\ nvar' = 0 /\ contexts' = <<>> /\ donorVcfsUsed' = <<>>
    /\ outFiles' = NoFiles
    /\ \A o \in Orientations : fqOut'[o] = <<>>

\* C26: when the acceptor alignment cannot be opened the run ends at once:
\* no sample is processed, no context is installed, and no registry,
\* statistics, donor table or FASTQ output is written.
C26_AcceptorOpenFailureEndsRun ==
    [][/\ pc # "exit"
       /\ pc = "start" /\ AcceptorHandle \notin openFiles' => pc' = "exit" /\ NothingDone]_vars

C26_Witness == pc = "exit" /\ AcceptorHandle \notin openFiles /\ acceptorBam # {}

\* C27: on every path the VCF and the alignment file opened for a sample
\* are closed before the next sample is taken up, and the acceptor alignment
\* is closed before the run ends.
C27_FilesClosed ==
    /\ pc = "samples" => openFiles \subseteq {AcceptorHandle}
    /\ pc = "variants" =>
          openFiles \subseteq {AcceptorHandle, VcfHandle(sample), BamHandle(sample)}
    /\ pc \in {"exit", "crashed", "finished"} => openFiles = {}

(***************************************************************************)
(* Reads accumulated twice                                                 *)
(***************************************************************************)
\* The records r1 and r2 are the two mates of a pair of bam, its only
\* records, and fetch returns both for the search window of vcfVar
BothOverlap(bam, vcfVar, r1, r2) ==
    /\ r1.id = r2.id /\ r1.pn = 1 /\ r2.pn = 2
    /\ \A r \in bam : r.id = r1.id => r \in {r1, r2}
    /\ {r1, r2} \subseteq fetch(bam, vcfVar.chrom, SearchWindow(vcfVar)[1],
                                 SearchWindow(vcfVar)[2])

\* The context with the identifier of the variant
ContextOf(reg, vcfVar) == reg[CHOOSE i \in DOMAIN reg : reg[i].id = getVcfVariantId(vcfVar)]

\* C28: when both mates of a pair overlap the search window, each of them
\* is accumulated twice (as a fetched read and as the mate of the other);
\* the reads returned hold both mates, each once: duplicates are removed
\* before the exactly-twice filter.
C28_BothMatesKeptOnce ==
    [][VariantProcessed /\ lastVar'.outcome = "installed" =>
          LET vcfVar == lastVar'.variant
              varcon == ContextOf(contexts', vcfVar)
          IN  /\ \A r1, r2 \in acceptorBam : BothOverlap(acceptorBam, vcfVar, r1, r2) =>
                    {ToDonorBamRead(r1), ToDonorBamRead(r2)} \subseteq varcon.acon.reads
              /\ \A r1, r2 \in donorBam : BothOverlap(donorBam, vcfVar, r1, r2) =>
                    {ToDonorBamRead(r1), ToDonorBamRead(r2)} \subseteq varcon.dcon.reads]_vars

C28_Witness ==
    /\ pc = "variants" /\ lastVar.outcome = "installed"
    /\ \E i \in DOMAIN contexts :
          /\ contexts[i].id = getVcfVariantId(lastVar.variant)
          /\ \E r1, r2 \in donorBam :
                /\ BothOverlap(donorBam, lastVar.variant, r1, r2)
                /\ {ToDonorBamRead(r1), ToDonorBamRead(r2)} \subseteq contexts[i].dcon.reads
                /\ Cardinality(contexts[i].dcon.reads) > 2

(***************************************************************************)
(* Donor reads and whole records in the output                             *)
(***************************************************************************)
\* The (identifier, pair number) of the donor records of a file, in order
DonorRecordsOf(out) ==
    LET IsDonorHeader(l) == IsDonorLine(l) /\ l.k = "H"
        hs == SelectSeq(out, IsDonorHeader)
    IN  [i \in DOMAIN hs |-> <<hs[i].id, hs[i].pn>>]

\* C29: no donor read is emitted more than once per orientation, even when
\* two contexts hold the same donor read: the list of
\* get_all_variant_context_donor_reads has each (identifier, pair number)
\* at most once.
C29_DonorReadsEmittedOnce ==
    /\ Distinct([i \in DOMAIN donorReads |->
                    <<getBamReadId(donorReads[i]), donorReads[i].pn>>])
    /\ \A fR \in Orientations :
          Distinct(Flatten([x \in DOMAIN fqOut[fR] |-> DonorRecordsOf(fqOut[fR][x])]))

\* Four lines that are the header, sequence, separator and quality line of
\* one record
WholeRecord(g) ==
    /\ <<g[1].k, g[2].k, g[3].k, g[4].k>> = <<"H", "S", "P", "Q">>
    /\ \A i \in 2..4 : g[i].id = g[1].id /\ g[i].src = g[1].src /\ g[i].pn = g[1].pn

\* C30: for any input, also one with omitted records whose sequence or
\* quality line begins with '@', every output file is made of whole
\* four-line records only: no line of an omitted record is written, and no
\* header is followed by lines of another record.
C30_WholeRecordsOnly ==
    \A fR \in Orientations : \A x \in DOMAIN fqOut[fR] :
       LET out == fqOut[fR][x] IN
       /\ Len(out) % 4 = 0
       /\ \A k \in DOMAIN Framed(out) : WholeRecord(Framed(out)[k])
       /\ \A i \in DOMAIN out :
             IsAcceptorLine(out[i]) => out[i].id \notin RegistryAcceptorIds

====
